---- MODULE Spec2Model ----
(***************************************************************************)
(* Model of compio-net's Socket (src/compio-net/src/socket.rs): the socket *)
(* handle, the futures its asynchronous methods return, the operation      *)
(* objects those futures submit to the runtime, and the descriptors and    *)
(* buffers whose ownership crosses the completion boundary.                *)
(*                                                                         *)
(* Every asynchronous method is an `async fn` or returns an `async` block, *)
(* so a call only captures its arguments (StartCall); the body runs up to  *)
(* the submission at the first poll (Poll), the OS finishes the request    *)
(* (OSComplete / OSAbort), and the rest of the body runs at the poll that  *)
(* observes the completion (PollReady).  The future can be dropped at any  *)
(* point before that (DropFuture).                                         *)
(***************************************************************************)
EXTENDS Integers, FiniteSets, Sequences, TLC

\* ---------------------------------------------------------------- bounds
MaxCalls == 1
MaxHandles == 2
MaxFd == 2
MaxBufs == 1
BufCap == 1

Calls == 1..MaxCalls
Handles == 1..MaxHandles
Fds == 1..MaxFd
Bufs == 1..MaxBufs

Backends == {"iocp", "uring", "poll"}
StreamKinds == {"recv", "send"}
DgramKinds == {"recv_from", "send_to"}
RecvKinds == {"recv", "recv_from"}
SendKinds == {"send", "send_to"}
BufKinds == RecvKinds \cup SendKinds
Families == {"v4", "v6"}
FdKinds == {"connect", "accept", "close"}
DataKinds == BufKinds \cup {"shutdown"}

\* Attachment of a handle: to no runtime yet, to the runtime whose tasks issue
\* the calls below, or to another runtime.
Unattached == "unattached"
Here == "here"
Elsewhere == "elsewhere"

VARIABLES
    backend,    \* the completion backend the crate was built for
    faults,     \* whether the environment may fail a request
    closed,     \* whether every peer is a handle of this program
    fd,         \* descriptor table: [Fds -> [st, rel, closing]]
    net,        \* OS socket state behind each descriptor
    handle,     \* Socket values: [Handles -> [st, fd, att]]
    buf,        \* caller buffers: [Bufs -> [owner, len, freed]]
    call,       \* futures in progress and their operation objects
    last,       \* the call that ended in the step just taken, as it ended
    prog        \* what the calling task has seen of the calls it awaited

vars == <<backend, faults, closed, fd, net, handle, buf, call, last, prog>>

Min(a, b) == IF a < b THEN a ELSE b

\* ---------------------------------------------------------------- records
NoHandle == [st |-> "none", fd |-> 0, att |-> "unattached"]

\* A datagram waiting at a socket: its length, the address it came from, the
\* handle that sent it and the address the sender's caller asked for.
NoDg == [n |-> 0, from |-> 0, src |-> 0, want |-> 0]

NoSock ==
    [listening |-> FALSE, backlog |-> {}, conn |-> FALSE, peer |-> 0, tx |-> 0,
     dom |-> "none", bound |-> FALSE, dg |-> NoDg, shut |-> "none"]

IdleCall ==
    [kind |-> "none", h |-> 0, buf |-> 0, len0 |-> 0, addr |-> 0,
     pc |-> "idle", got |-> "none", op |-> "none", os |-> "none", raw |-> "none", n |-> 0,
     out |-> "none", retbuf |-> 0, fin |-> "none", addrx |-> "none",
     tfd |-> 0, nfd |-> 0, pre |-> 0, ret |-> 0,
     opaddr |-> 0, from |-> 0, src |-> 0, retaddr |-> 0, dom |-> "none"]

\* The calling task while it runs no scripted sequence of calls.
NoProg ==
    [run |-> FALSE, acc |-> "todo", con |-> "todo", peer |-> 0,
     sent |-> {}, rcvd |-> {}, failed |-> FALSE]

\* What the task that awaited call r learns when the future resolves.
Observe(p, r) ==
    IF ~p.run \/ r.pc # "done" THEN p
    ELSE IF r.out # "ok" THEN [p EXCEPT !.failed = TRUE]
    ELSE IF r.kind = "accept" THEN [p EXCEPT !.acc = "ok", !.peer = r.ret]
    ELSE IF r.kind = "connect" THEN [p EXCEPT !.con = "ok"]
    ELSE IF r.kind \in BufKinds /\ r.n # 1 THEN [p EXCEPT !.failed = TRUE]
    ELSE IF r.kind \in SendKinds THEN [p EXCEPT !.sent = @ \cup {r.h}]
    ELSE IF r.kind \in RecvKinds THEN [p EXCEPT !.rcvd = @ \cup {r.h}]
    ELSE p

\* What the environment may answer: anything when faults are possible.
Outcomes == IF faults THEN BOOLEAN ELSE {TRUE}

\* ---------------------------------------------------------------- descriptors
HasFreshFd(fdv) == \E f \in DOMAIN fdv : fdv[f].st = "unused"
FreshFd(fdv) == CHOOSE f \in DOMAIN fdv : fdv[f].st = "unused" /\ \A g \in DOMAIN fdv : g < f => fdv[g].st # "unused"

HasFreshHandle(hv) == \E h \in DOMAIN hv : hv[h].st = "none"
FreshHandle(hv) == CHOOSE h \in DOMAIN hv : hv[h].st = "none" /\ \A g \in DOMAIN hv : g < h => hv[g].st # "none"

NoFd == [st |-> "unused", rel |-> 0, closing |-> FALSE, obj |-> 0]

\* a new OS object behind a new descriptor; the object is named after it
OpenFd(fdv, f) == [fdv EXCEPT ![f] = [NoFd EXCEPT !.st = "open", !.obj = f]]

\* The OS object a descriptor refers to, and whether any descriptor keeps it alive.
Obj(fdv, f) == fdv[f].obj
ObjOpen(fdv, o) == \E f \in DOMAIN fdv : fdv[f].st = "open" /\ fdv[f].obj = o

\* closing a descriptor; rel counts how often it was released (2 = more than once)
ReleaseFd(fdv, f) == [fdv EXCEPT ![f].st = "released", ![f].rel = Min(@ + 1, 2)]

\* Socket2's destructor: releases the descriptor of a Socket that still owns one.
\* A Socket inside ManuallyDrop ("guarded") has no destructor run.
DropSocket(fdv, hv, h) ==
    IF hv[h].st \in {"live", "local"} THEN ReleaseFd(fdv, hv[h].fd) ELSE fdv

\* ---------------------------------------------------------------- Socket
\* (mutant) try_get that refuses a handle which is not attached yet
try_get_attached_only(hv, h, attachOk) == hv[h].att = Here

\* Attacher::try_get: the handle attaches to the current runtime at its first
\* use and is usable only from that runtime afterwards.
try_get(hv, h, attachOk) == hv[h].att = Here \/ (hv[h].att = Unattached /\ attachOk)

Attached(hv, h, attachOk) ==
    IF hv[h].att = Unattached /\ attachOk THEN [hv EXCEPT ![h].att = Here] ELSE hv

\* Socket::from_socket2: a handle over the descriptor, not yet attached.
from_socket2(f, st) == [st |-> st, fd |-> f, att |-> Unattached]

\* (mutant) the clone wraps the descriptor of the handle it was cloned from
try_clone_fd_alias(f, fresh) == f

\* Socket::try_clone: the clone wraps the descriptor Socket2::try_clone made.
try_clone_fd(f, fresh) == fresh

\* Socket::local_addr: the address of the OS object behind the handle's descriptor.
local_addr(h) == Obj(fd, handle[h].fd)

\* (mutant) shutdown of both directions
ShutdownHowBoth == "both"

\* ShutdownSocket::new(fd, std::net::Shutdown::Write)
ShutdownHow == "write"

\* Connect::new / SendTo::new take `addr.clone()`: the address the caller gave.
op_addr(a) == a

\* Whether Socket::new and accept put the socket in non-blocking mode.
SetsNonblocking == backend = "poll"

\* (mutant) close() moves `self` into the async block as it is
CloseWrapPlain == "local"

\* close(): `self` is moved into ManuallyDrop before the async block captures it.
CloseWrap == "guarded"

\* (mutant) the operation borrows a buffer that stays in the future's frame
OpBufBorrowed == "future"

\* (mutant) the operation works on a buffer the caller still holds
OpBufShared == "caller"

\* Recv::new(fd, buffer) and its siblings take the buffer by value.
OpBufOwner == "op"

\* (mutant) the result of try_get is not looked at before the operation is built
buf_try_unchecked(ok) == [submit |-> TRUE, owner |-> OpBufOwner]

\* buf_try!(self.try_get(), buffer): on an error the call returns at once with
\* the error and the buffer; otherwise the buffer goes on into the operation.
buf_try(ok) == [submit |-> ok, owner |-> IF ok THEN OpBufOwner ELSE "caller"]

\* Which methods go through try_get before they build the operation.
UsesTryGet(k) == k # "close"

\* (mutant) the runtime cancels whatever operation loses its future
CancelOnDropAny(k) == TRUE

\* Runtime: dropping the future of a submitted operation asks the OS to cancel
\* it, except for close, which stays submitted and is driven to completion.
CancelOnDrop(k) == k # "close"

\* BufResultExt::map_advanced: the cursor moves by the byte count on success.
map_advanced(ok, n, len) == IF ok THEN len + n ELSE len

\* (mutant) the recv family without map_advanced
recv_result_unadvanced(ok, n, len, b) == [out |-> IF ok THEN "ok" ELSE "err", len |-> len, buf |-> b]

\* (mutant) the recv family keeps the buffer instead of handing it back
recv_result_kept(ok, n, len, b) == [out |-> IF ok THEN "ok" ELSE "err", len |-> len, buf |-> 0]

\* .into_inner().map_advanced() of the recv family: [out, len, buf]
recv_result(ok, n, len, b) == [out |-> IF ok THEN "ok" ELSE "err", len |-> map_advanced(ok, n, len), buf |-> b]

\* (mutant) recv_from hands back the count without the sender's address
recv_from_result_noaddr(ok, n, len, b, from) ==
    [out |-> IF ok THEN "ok" ELSE "err", len |-> map_advanced(ok, n, len), buf |-> b, addr |-> 0]

\* Socket::recv_from: into_inner, then map_addr, then map_advanced: the count
\* together with the address the OS wrote into the operation.
recv_from_result(ok, n, len, b, from) ==
    [out |-> IF ok THEN "ok" ELSE "err", len |-> map_advanced(ok, n, len), buf |-> b,
     addr |-> IF ok THEN from ELSE 0]

\* .into_inner() of the send family: the buffer comes back as it went in
send_result(ok, n, len, b) == [out |-> IF ok THEN "ok" ELSE "err", len |-> len, buf |-> b]

\* Socket::bind creates the socket with `addr.domain()`.
new_domain(addrDom) == addrDom

\* (mutant) bind that does not look at what the OS bind returned
bind_result_unchecked(sockOk, nbOk, attachOk, bindOk) ==
    IF ~sockOk THEN [out |-> "err", sock |-> "none", raw |-> "err", got |-> "none", fin |-> "none"]
    ELSE IF SetsNonblocking /\ ~nbOk
        THEN [out |-> "err", sock |-> "dropped", raw |-> "err", got |-> "none", fin |-> "none"]
    ELSE IF ~attachOk
        THEN [out |-> "err", sock |-> "dropped", raw |-> "ok", got |-> "err", fin |-> "none"]
    ELSE [out |-> "ok", sock |-> "returned", raw |-> "ok", got |-> "ok",
          fin |-> IF bindOk THEN "ok" ELSE "err"]

\* Socket::bind: `Self::new(..)?`, `socket.try_get()?.bind(addr)?`, `Ok(socket)`.
\* raw is how Self::new ended, got how try_get did, fin how the OS bind did; a
\* socket that exists when a `?` leaves the function is dropped.
bind_result(sockOk, nbOk, attachOk, bindOk) ==
    IF ~sockOk THEN [out |-> "err", sock |-> "none", raw |-> "err", got |-> "none", fin |-> "none"]
    ELSE IF SetsNonblocking /\ ~nbOk
        THEN [out |-> "err", sock |-> "dropped", raw |-> "err", got |-> "none", fin |-> "none"]
    ELSE IF ~attachOk
        THEN [out |-> "err", sock |-> "dropped", raw |-> "ok", got |-> "err", fin |-> "none"]
    ELSE IF ~bindOk
        THEN [out |-> "err", sock |-> "dropped", raw |-> "ok", got |-> "ok", fin |-> "err"]
    ELSE [out |-> "ok", sock |-> "returned", raw |-> "ok", got |-> "ok", fin |-> "ok"]

\* (mutant) connect_async that ignores what update_context returns
connect_async_result_swallow(ok, finOk) ==
    IF backend = "iocp"
    THEN IF ~ok THEN [out |-> "err", fin |-> "none"]
         ELSE [out |-> "ok", fin |-> IF finOk THEN "ok" ELSE "err"]
    ELSE [out |-> IF ok THEN "ok" ELSE "err", fin |-> "none"]

\* connect_async after the await: [out, fin]
connect_async_result(ok, finOk) ==
    IF backend = "iocp"
    THEN IF ~ok THEN [out |-> "err", fin |-> "none"]
         ELSE IF ~finOk THEN [out |-> "err", fin |-> "err"]
         ELSE [out |-> "ok", fin |-> "ok"]
    ELSE [out |-> IF ok THEN "ok" ELSE "err", fin |-> "none"]

\* (mutant) accept (windows) whose `res?` leaves with accept_sock forgotten
accept_windows_result_leaky(ok, finOk, addrOk) ==
    IF ~ok THEN [out |-> "err", fin |-> "none", addrx |-> "none", sock |-> "leaked"]
    ELSE IF ~finOk THEN [out |-> "err", fin |-> "err", addrx |-> "none", sock |-> "dropped"]
    ELSE IF ~addrOk THEN [out |-> "err", fin |-> "ok", addrx |-> "err", sock |-> "dropped"]
    ELSE [out |-> "ok", fin |-> "ok", addrx |-> "ok", sock |-> "returned"]

\* accept (windows) after the await: res?; update_context()?; into_addr()?
\* "sock" is what becomes of accept_sock: every `?` drops it, Ok returns it.
accept_windows_result(ok, finOk, addrOk) ==
    IF ~ok THEN [out |-> "err", fin |-> "none", addrx |-> "none", sock |-> "dropped"]
    ELSE IF ~finOk THEN [out |-> "err", fin |-> "err", addrx |-> "none", sock |-> "dropped"]
    ELSE IF ~addrOk THEN [out |-> "err", fin |-> "ok", addrx |-> "err", sock |-> "dropped"]
    ELSE [out |-> "ok", fin |-> "ok", addrx |-> "ok", sock |-> "returned"]

\* accept (unix) after the await: res?; from_raw_fd; set_nonblocking(true)?
\* where required.  "sock" is what becomes of the Socket2 built from the raw
\* descriptor: none was built, it was dropped by `?`, or it is returned.
accept_unix_result(ok, nbOk) ==
    IF ~ok THEN [out |-> "err", sock |-> "none"]
    ELSE IF SetsNonblocking /\ ~nbOk THEN [out |-> "err", sock |-> "dropped"]
    ELSE [out |-> "ok", sock |-> "returned"]

\* (mutant) the returned handle wraps the descriptor accept was called on
accept_unix_fd_listener(listenerFd, rawFd) == listenerFd

\* The descriptor the handle returned by accept (unix) wraps: the raw result.
accept_unix_fd(listenerFd, rawFd) == rawFd

\* ---------------------------------------------------------------- environment
Live(c) == call[c].pc \in {"created", "pending"}
Borrowed(h) == \E c \in DOMAIN call : call[c].h = h /\ Live(c)

\* Byte counts the OS may report for a successful request of call c.
SuccessN(c) ==
    IF call[c].kind \in RecvKinds THEN 0..(BufCap - call[c].len0)
    ELSE IF call[c].kind \in SendKinds THEN 0..call[c].len0
    ELSE {0}

\* Peers outside the program: the OS may answer anything.
OsErr == [ok |-> FALSE, n |-> 0, from |-> 0, src |-> 0]
OsOk(k) == [ok |-> TRUE, n |-> k, from |-> 0, src |-> 0]

OpenResults(c) ==
    {OsOk(k) : k \in SuccessN(c)} \cup (IF faults THEN {OsErr} ELSE {})

\* Every peer is a handle of this program: the answer follows from the sockets.
ClosedResults(c) ==
    LET k == call[c].kind
        f == call[c].tfd
        s == net[Obj(fd, f)]
        to == call[c].opaddr
    IN  IF fd[f].st # "open" THEN {OsErr}
        ELSE IF k = "connect"
            THEN IF to \in DOMAIN net /\ net[to].listening /\ ObjOpen(fd, to) /\ ~s.conn
                 THEN {OsOk(0)} ELSE {OsErr}
        ELSE IF k = "accept"
            THEN IF ~s.listening THEN {OsErr}
                 ELSE IF s.backlog = {} THEN {}
                 ELSE {OsOk(0)}
        ELSE IF k = "send_to"
            THEN \* a datagram leaves whether or not anybody gets it
                 {OsOk(call[c].len0)}
        ELSE IF k = "recv_from"
            THEN IF ~s.bound THEN {OsErr}
                 ELSE IF s.dg = NoDg THEN {}
                 ELSE {[ok |-> TRUE, n |-> Min(s.dg.n, BufCap - call[c].len0),
                        from |-> s.dg.from, src |-> s.dg.src]}
        ELSE IF k \in SendKinds
            THEN IF ~s.conn THEN {OsErr}
                 ELSE IF call[c].len0 = 0 THEN {OsOk(0)}
                 ELSE IF s.tx >= BufCap THEN {}
                 ELSE {OsOk(Min(call[c].len0, BufCap - s.tx))}
        ELSE IF k \in RecvKinds
            THEN IF ~s.conn THEN {OsErr}
                 ELSE IF call[c].len0 = BufCap THEN {OsOk(0)}
                 ELSE IF s.peer = 0 \/ net[s.peer].tx = 0 THEN {}
                 ELSE {OsOk(Min(net[s.peer].tx, BufCap - call[c].len0))}
        ELSE {OsOk(0)}

OsResults(c) ==
    IF call[c].os # "inflight" THEN {}
    ELSE IF closed THEN ClosedResults(c) ELSE OpenResults(c)

FirstOf(S) == CHOOSE x \in S : \A y \in S : x <= y

\* The sockets after the request of call c ended with r; a is the descriptor an
\* accepted connection got, which also names the connection's OS object.
NetAfter(c, r, a) ==
    LET k == call[c].kind
        f == IF call[c].tfd = 0 THEN 0 ELSE Obj(fd, call[c].tfd)
        to == call[c].opaddr
    IN  IF k = "shutdown"
            THEN IF r.ok THEN [net EXCEPT ![f].shut = ShutdownHow] ELSE net
        ELSE IF ~closed \/ ~r.ok THEN net
        ELSE IF k = "connect"
            THEN [net EXCEPT ![f].conn = TRUE,
                             ![to].backlog = @ \cup {f}]
        ELSE IF k = "send_to"
            THEN IF to \in DOMAIN net /\ net[to].bound /\ ObjOpen(fd, to) /\ net[to].dg = NoDg
                 THEN [net EXCEPT ![to].dg = [n |-> r.n, from |-> f, src |-> call[c].h,
                                              want |-> call[c].addr]]
                 ELSE net
        ELSE IF k = "recv_from" THEN [net EXCEPT ![f].dg = NoDg]
        ELSE IF k = "accept"
            THEN LET x == FirstOf(net[f].backlog)
                 IN [net EXCEPT ![f].backlog = @ \ {x},
                                ![x].peer = a,
                                ![a] = [NoSock EXCEPT !.conn = TRUE, !.peer = x]]
        ELSE IF k \in SendKinds THEN [net EXCEPT ![f].tx = @ + r.n]
        ELSE IF k \in RecvKinds /\ r.n > 0 THEN [net EXCEPT ![net[f].peer].tx = @ - r.n]
        ELSE net

\* ---------------------------------------------------------------- initial state
\* One socket made by Socket::new, one buffer in the caller's hands.
Init ==
    /\ backend \in Backends
    /\ faults = TRUE
    /\ closed = FALSE
    /\ fd = OpenFd([f \in Fds |-> NoFd], 1)
    /\ net = [f \in Fds |-> NoSock]
    /\ handle = [h \in Handles |-> IF h = 1 THEN from_socket2(1, "live") ELSE NoHandle]
    /\ buf = [b \in Bufs |-> [owner |-> "caller", len |-> 0, freed |-> 0]]
    /\ call = [c \in Calls |-> IdleCall]
    /\ last = IdleCall
    /\ prog = NoProg

DestroyBuf(bv, b) == [bv EXCEPT ![b].owner = "destroyed", ![b].freed = Min(@ + 1, 2)]

\* ---------------------------------------------------------------- synchronous calls
\* Socket::new: Socket2::new, then set_nonblocking where the backend needs it;
\* on its failure the Socket2 is dropped and no handle is returned.
New ==
    \E nbOk \in Outcomes :
        /\ HasFreshFd(fd) /\ HasFreshHandle(handle)
        /\ LET f == FreshFd(fd)
               h == FreshHandle(handle)
           IN  IF SetsNonblocking /\ ~nbOk
               THEN /\ fd' = ReleaseFd(OpenFd(fd, f), f)
                    /\ handle' = handle
               ELSE /\ fd' = OpenFd(fd, f)
                    /\ handle' = [handle EXCEPT ![h] = from_socket2(f, "live")]
        /\ UNCHANGED <<backend, faults, closed, net, buf, call>> /\ last' = IdleCall /\ prog' = prog

\* Socket::bind to an address of family dom.
Bind(dom) ==
    \E sockOk \in Outcomes, nbOk \in Outcomes, attachOk \in Outcomes, bindOk \in Outcomes :
        /\ HasFreshFd(fd) /\ HasFreshHandle(handle)
        /\ LET r == bind_result(sockOk, nbOk, attachOk, bindOk)
               f == FreshFd(fd)
               h == FreshHandle(handle)
           IN  /\ fd' = IF r.sock = "none" THEN fd
                         ELSE IF r.sock = "dropped" THEN ReleaseFd(OpenFd(fd, f), f)
                         ELSE OpenFd(fd, f)
               /\ handle' = IF r.sock = "returned"
                            THEN [handle EXCEPT ![h] = [from_socket2(f, "live") EXCEPT !.att = Here]]
                            ELSE handle
               /\ net' = IF r.sock # "returned" THEN net
                          ELSE [net EXCEPT ![f] = [NoSock EXCEPT !.dom = new_domain(dom),
                                                                 !.bound = TRUE]]
               /\ last' = [IdleCall EXCEPT !.kind = "bind", !.pc = "done", !.out = r.out,
                                            !.raw = r.raw, !.got = r.got, !.fin = r.fin,
                                            !.nfd = IF r.sock = "none" THEN 0 ELSE f,
                                            !.ret = IF r.sock = "returned" THEN h ELSE 0,
                                            !.dom = dom]
        /\ prog' = prog
        /\ UNCHANGED <<backend, faults, closed, buf, call>>

\* Socket::try_clone: a second descriptor for the same OS object, in a new
\* handle that is not attached yet; nothing is made when the OS refuses.
TryClone(h) ==
    \E ok \in Outcomes :
        /\ handle[h].st = "live"
        /\ HasFreshFd(fd) /\ HasFreshHandle(handle)
        /\ LET f == handle[h].fd
               g == try_clone_fd(f, FreshFd(fd))
               n == FreshHandle(handle)
           IN  /\ fd' = IF ok THEN [fd EXCEPT ![g] = [NoFd EXCEPT !.st = "open", !.obj = Obj(fd, f)]]
                         ELSE fd
               /\ handle' = IF ok THEN [handle EXCEPT ![n] = from_socket2(g, "live")] ELSE handle
               /\ last' = [IdleCall EXCEPT !.kind = "try_clone", !.pc = "done", !.h = h,
                                            !.out = IF ok THEN "ok" ELSE "err",
                                            !.tfd = f,
                                            !.nfd = IF ok THEN g ELSE 0,
                                            !.ret = IF ok THEN n ELSE 0]
        /\ prog' = prog
        /\ UNCHANGED <<backend, faults, closed, net, buf, call>>

\* The caller lets a handle go out of scope: Socket2's destructor runs.
DropHandle(h) ==
    /\ handle[h].st = "live"
    /\ ~Borrowed(h)
    /\ fd' = DropSocket(fd, handle, h)
    /\ handle' = [handle EXCEPT ![h].st = "gone"]
    /\ UNCHANGED <<backend, faults, closed, net, buf, call>> /\ last' = IdleCall /\ prog' = prog

\* A task of another runtime uses the handle first: it attaches there.
UseElsewhere(h) ==
    /\ handle[h].st = "live"
    /\ handle[h].att = Unattached
    /\ handle' = [handle EXCEPT ![h].att = Elsewhere]
    /\ UNCHANGED <<backend, faults, closed, fd, net, buf, call>> /\ last' = IdleCall /\ prog' = prog

\* The caller rewrites a buffer it holds.
CallerWrite(b, l) ==
    /\ buf[b].owner = "caller"
    /\ buf[b].len # l
    /\ buf' = [buf EXCEPT ![b].len = l]
    /\ UNCHANGED <<backend, faults, closed, fd, net, handle, call>> /\ last' = IdleCall /\ prog' = prog

\* ---------------------------------------------------------------- asynchronous calls
HasIdle == \E c \in DOMAIN call : call[c].pc = "idle"
FirstIdle == FirstOf({c \in DOMAIN call : call[c].pc = "idle"})

\* The slot of call c once the call ended as record r.
Ended(c, r) ==
    /\ call' = [call EXCEPT ![c] = IdleCall]
    /\ last' = r
    /\ prog' = Observe(prog, r)

\* Calling an async method: the future captures its arguments and nothing runs.
\* close takes `self` by value and wraps it before the async block.
StartCall(k, h, b, a) ==
    /\ HasIdle
    /\ handle[h].st = "live"
    /\ k = "close" => ~Borrowed(h)
    /\ IF k \in BufKinds THEN b \in DOMAIN buf /\ buf[b].owner = "caller" ELSE b = 0
    /\ IF closed /\ k \in {"connect", "send_to"} THEN a \in DOMAIN fd ELSE a = 0
    /\ call' = [call EXCEPT ![FirstIdle] =
                    [IdleCall EXCEPT !.kind = k, !.h = h, !.buf = b,
                                     !.len0 = IF b = 0 THEN 0 ELSE buf[b].len,
                                     !.addr = a, !.pc = "created"]]
    /\ buf' = IF b = 0 THEN buf ELSE [buf EXCEPT ![b].owner = "future"]
    /\ handle' = IF k = "close" THEN [handle EXCEPT ![h].st = CloseWrap] ELSE handle
    /\ fd' = IF k = "close" THEN [fd EXCEPT ![handle[h].fd].closing = TRUE] ELSE fd
    /\ UNCHANGED <<backend, faults, closed, net>> /\ last' = IdleCall /\ prog' = prog

\* First poll: the body runs up to `Runtime::current().submit(op).await`.
Poll(c) ==
    \E attachOk \in Outcomes, prepOk \in Outcomes :
        LET k == call[c].kind
            h == call[c].h
            b == call[c].buf
            usable == ~UsesTryGet(k) \/ try_get(handle, h, attachOk)
            hv == IF UsesTryGet(k) THEN Attached(handle, h, attachOk) ELSE handle
            prealloc == k = "accept" /\ backend = "iocp"
            got == IF ~UsesTryGet(k) THEN "none" ELSE IF usable THEN "ok" ELSE "err"
            me == [call[c] EXCEPT !.got = got, !.opaddr = op_addr(call[c].addr)]
        IN  /\ call[c].pc = "created"
            /\ IF ~buf_try(usable).submit \/ (prealloc /\ ~prepOk)
               THEN \* buf_try! / `?`: the error and the untouched buffer go back
                    /\ Ended(c, [me EXCEPT !.pc = "done", !.out = "err",
                                           !.retbuf = IF buf_try(usable).owner = "caller" THEN b ELSE 0])
                    /\ buf' = IF b = 0 THEN buf
                              ELSE IF buf_try(usable).owner = "destroyed" THEN DestroyBuf(buf, b)
                              ELSE [buf EXCEPT ![b].owner = buf_try(usable).owner]
                    /\ handle' = hv
                    /\ fd' = fd
               ELSE IF prealloc
               THEN \* accept (windows): Self::new for the socket to accept into
                    /\ HasFreshFd(fd) /\ HasFreshHandle(hv)
                    /\ LET f == FreshFd(fd)
                           p == FreshHandle(hv)
                       IN /\ fd' = OpenFd(fd, f)
                          /\ handle' = [hv EXCEPT ![p] = from_socket2(f, "local")]
                          /\ call' = [call EXCEPT ![c] = [me EXCEPT !.pc = "pending", !.op = "Submitted",
                                                  !.os = "inflight", !.tfd = hv[h].fd,
                                                  !.nfd = f, !.pre = p]]
                    /\ buf' = buf
                    /\ last' = IdleCall /\ prog' = prog
               ELSE /\ call' = [call EXCEPT ![c] = [me EXCEPT !.pc = "pending", !.op = "Submitted",
                                            !.os = "inflight", !.tfd = hv[h].fd]]
                    /\ buf' = IF b = 0 THEN buf ELSE [buf EXCEPT ![b].owner = buf_try(usable).owner]
                    /\ handle' = hv
                    /\ fd' = fd
                    /\ last' = IdleCall /\ prog' = prog
            /\ UNCHANGED <<backend, faults, closed, net>>

\* The OS finishes the request.  A submitted operation becomes Completed; the
\* runtime destroys a cancelled one together with its buffer.
OSComplete(c) ==
    \E r \in OsResults(c) :
        LET k == call[c].kind
            b == call[c].buf
            kernelFd == k = "accept" /\ backend # "iocp" /\ r.ok
            a == IF k = "accept" /\ r.ok
                 THEN IF backend = "iocp" THEN call[c].nfd ELSE FreshFd(fd)
                 ELSE 0
            rec == [call[c] EXCEPT !.os = "done",
                                   !.raw = IF r.ok THEN "ok" ELSE "err",
                                   !.n = r.n, !.from = r.from, !.src = r.src,
                                   !.nfd = IF kernelFd THEN a ELSE @,
                                   !.op = IF @ = "Submitted" THEN "Completed" ELSE @]
        IN  /\ call[c].os = "inflight"
            /\ kernelFd => HasFreshFd(fd)
            /\ fd' = IF k = "close" THEN ReleaseFd(fd, call[c].tfd)
                     ELSE IF kernelFd THEN OpenFd(fd, a)
                     ELSE fd
            /\ net' = NetAfter(c, r, a)
            /\ IF call[c].pc = "dropped"
               THEN Ended(c, rec)
               ELSE call' = [call EXCEPT ![c] = rec] /\ last' = IdleCall /\ prog' = prog
            /\ buf' = IF call[c].op = "Cancelled" /\ b # 0 /\ buf[b].owner = "op"
                      THEN DestroyBuf(buf, b) ELSE buf
            /\ UNCHANGED <<backend, faults, closed, handle>>

\* The OS honours the cancellation: the request ends without a result.
OSAbort(c) ==
    LET b == call[c].buf
    IN  /\ call[c].os = "inflight"
        /\ call[c].op = "Cancelled"
        /\ Ended(c, [call[c] EXCEPT !.os = "aborted"])
        /\ buf' = IF b # 0 /\ buf[b].owner = "op" THEN DestroyBuf(buf, b) ELSE buf
        /\ UNCHANGED <<backend, faults, closed, fd, net, handle>>

\* The poll that observes the completion: the rest of the body runs and the
\* future resolves.
PollReady(c) ==
    \E finOk \in Outcomes, addrOk \in Outcomes, nbOk \in Outcomes :
        LET k == call[c].kind
            h == call[c].h
            b == call[c].buf
            ok == call[c].raw = "ok"
            plain == IF ok THEN "ok" ELSE "err"
            done == [call[c] EXCEPT !.pc = "done"]
        IN  /\ call[c].pc = "pending"
            /\ call[c].op = "Completed"
            /\ IF k \in BufKinds
               THEN LET r == IF k = "recv_from"
                             THEN recv_from_result(ok, call[c].n, call[c].len0, b, call[c].from)
                             ELSE IF k \in RecvKinds
                             THEN recv_result(ok, call[c].n, call[c].len0, b)
                             ELSE send_result(ok, call[c].n, call[c].len0, b)
                        ra == IF k = "recv_from" THEN r.addr ELSE 0
                    IN /\ Ended(c, [done EXCEPT !.out = r.out, !.retbuf = r.buf, !.retaddr = ra])
                       /\ buf' = [buf EXCEPT ![r.buf].owner = "caller", ![r.buf].len = r.len]
                       /\ UNCHANGED <<fd, handle>>
               ELSE IF k = "connect"
               THEN LET r == connect_async_result(ok, finOk)
                    IN /\ Ended(c, [done EXCEPT !.out = r.out, !.fin = r.fin])
                       /\ UNCHANGED <<fd, handle, buf>>
               ELSE IF k = "accept" /\ backend = "iocp"
               THEN LET r == accept_windows_result(ok, finOk, addrOk)
                        p == call[c].pre
                    IN /\ Ended(c, [done EXCEPT !.out = r.out, !.fin = r.fin, !.addrx = r.addrx,
                                                !.ret = IF r.sock = "returned" THEN p ELSE 0])
                       /\ fd' = IF r.sock = "dropped" THEN DropSocket(fd, handle, p) ELSE fd
                       /\ handle' = [handle EXCEPT ![p].st = IF r.sock = "returned" THEN "live" ELSE "gone"]
                       /\ buf' = buf
               ELSE IF k = "accept"
               THEN LET r == accept_unix_result(ok, nbOk)
                        g == FreshHandle(handle)
                    IN /\ r.sock = "returned" => HasFreshHandle(handle)
                       /\ Ended(c, [done EXCEPT !.out = r.out, !.ret = IF r.sock = "returned" THEN g ELSE 0])
                       /\ fd' = IF r.sock = "dropped" THEN ReleaseFd(fd, call[c].nfd) ELSE fd
                       /\ handle' = IF r.sock = "returned"
                                    THEN [handle EXCEPT ![g] = from_socket2(accept_unix_fd(call[c].tfd, call[c].nfd), "live")]
                                    ELSE handle
                       /\ buf' = buf
               ELSE IF k = "close"
               THEN \* the async block ends: `this` goes out of scope
                    /\ Ended(c, [done EXCEPT !.out = plain])
                    /\ fd' = DropSocket(fd, handle, h)
                    /\ handle' = [handle EXCEPT ![h].st = "gone"]
                    /\ buf' = buf
               ELSE /\ Ended(c, [done EXCEPT !.out = plain])
                    /\ UNCHANGED <<fd, handle, buf>>
            /\ UNCHANGED <<backend, faults, closed, net>>

\* The future is dropped before it resolved: everything it owns is destroyed,
\* and the runtime is told that nobody waits for the operation any more.
DropFuture(c) ==
    LET k == call[c].kind
        h == call[c].h
        b == call[c].buf
        p == call[c].pre
        owned == b # 0 /\ (buf[b].owner = "future"
                           \/ (buf[b].owner = "op" /\ call[c].op = "Completed"))
        fd1 == IF k = "close" THEN DropSocket(fd, handle, h) ELSE fd
        hv1 == IF k = "close" THEN [handle EXCEPT ![h].st = "gone"] ELSE handle
        rec == [call[c] EXCEPT !.pc = "dropped",
                               !.op = IF @ = "Submitted" /\ CancelOnDrop(k) THEN "Cancelled" ELSE @]
    IN  /\ Live(c)
        /\ IF call[c].os = "inflight"
           THEN call' = [call EXCEPT ![c] = rec] /\ last' = IdleCall /\ prog' = prog
           ELSE Ended(c, rec)
        /\ buf' = IF owned THEN DestroyBuf(buf, b) ELSE buf
        /\ fd' = IF p # 0 THEN DropSocket(fd1, hv1, p) ELSE fd1
        /\ handle' = IF p # 0 THEN [hv1 EXCEPT ![p].st = "gone"] ELSE hv1
        /\ UNCHANGED <<backend, faults, closed, net>>

\* ---------------------------------------------------------------- specifications
StartFd == \E k \in FdKinds, h \in DOMAIN handle : StartCall(k, h, 0, 0)
StartBuf == \E k \in StreamKinds, h \in DOMAIN handle, b \in DOMAIN buf : StartCall(k, h, b, 0)
StartShutdown == \E h \in DOMAIN handle : StartCall("shutdown", h, 0, 0)

Steps ==
    \/ \E c \in DOMAIN call : Poll(c)
    \/ \E c \in DOMAIN call : OSComplete(c)
    \/ \E c \in DOMAIN call : OSAbort(c)
    \/ \E c \in DOMAIN call : PollReady(c)
    \/ \E c \in DOMAIN call : DropFuture(c)

\* Descriptors and handles: connect, accept, shutdown and close against peers
\* outside the program, any of which the environment may fail.
Next ==
    \/ \E h \in DOMAIN handle : DropHandle(h)
    \/ StartFd
    \/ Steps

Spec == Init /\ [][Next]_vars

\* The data path of one socket: recv, send and shutdown.
BufNext ==
    \/ \E h \in DOMAIN handle : UseElsewhere(h)
    \/ \E b \in DOMAIN buf, l \in 0..BufCap : CallerWrite(b, l)
    \/ StartBuf
    \/ StartShutdown
    \/ Steps

BufSpec == Init /\ [][BufNext]_vars

\* Sockets made by bind, any step of which the environment may fail.
BindInit ==
    /\ backend \in Backends
    /\ faults = TRUE
    /\ closed = FALSE
    /\ fd = [f \in Fds |-> NoFd]
    /\ net = [f \in Fds |-> NoSock]
    /\ handle = [h \in Handles |-> NoHandle]
    /\ buf = [b \in Bufs |-> [owner |-> "caller", len |-> 0, freed |-> 0]]
    /\ call = [c \in Calls |-> IdleCall]
    /\ last = IdleCall
    /\ prog = NoProg

BindNext ==
    \/ \E dom \in Families : Bind(dom)
    \/ \E h \in DOMAIN handle : DropHandle(h)

BindSpec == BindInit /\ [][BindNext]_vars

\* Two bound datagram sockets of one program that send to and receive from
\* each other and themselves.  recv_from and send_to are the same code on every
\* backend, so one backend stands for all.
DgSocks == {1, 2}

DgInit ==
    /\ backend = "uring"
    /\ faults = TRUE
    /\ closed = TRUE
    /\ fd = [f \in Fds |-> IF f \in DgSocks THEN [NoFd EXCEPT !.st = "open", !.obj = f] ELSE NoFd]
    /\ net = [f \in Fds |-> IF f \in DgSocks THEN [NoSock EXCEPT !.bound = TRUE] ELSE NoSock]
    /\ handle = [h \in Handles |->
                    IF h \in DgSocks THEN [from_socket2(h, "live") EXCEPT !.att = Here] ELSE NoHandle]
    /\ buf = [b \in Bufs |-> [owner |-> "caller", len |-> 0, freed |-> 0]]
    /\ call = [c \in Calls |-> IdleCall]
    /\ last = IdleCall
    /\ prog = NoProg

\* One task sends and one receives, each awaiting its call before the next.
StartSendTo ==
    /\ \A c \in DOMAIN call : call[c].kind # "send_to"
    /\ \E h \in DOMAIN handle, b \in DOMAIN buf, a \in DOMAIN fd :
            buf[b].len > 0 /\ StartCall("send_to", h, b, a)

StartRecvFrom ==
    /\ \A c \in DOMAIN call : call[c].kind # "recv_from"
    /\ \E h \in DOMAIN handle, b \in DOMAIN buf :
            buf[b].len = 0 /\ StartCall("recv_from", h, b, 0)

DgNext ==
    \/ \E b \in DOMAIN buf, l \in 0..BufCap : CallerWrite(b, l)
    \/ StartSendTo
    \/ StartRecvFrom
    \/ \E c \in DOMAIN call : Poll(c)
    \/ \E c \in DOMAIN call : OSComplete(c)
    \/ \E c \in DOMAIN call : PollReady(c)

DgramSpec == DgInit /\ [][DgNext]_vars

\* One connected stream socket whose handle is cloned; the handles are used,
\* dropped and closed in any order.  The peer end stays open.
CloneFds == MaxFd + 1

CloneInit ==
    /\ backend \in Backends
    /\ faults = TRUE
    /\ closed = TRUE
    /\ fd = OpenFd(OpenFd([f \in 1..CloneFds |-> NoFd], 1), 2)
    /\ net = [f \in 1..CloneFds |->
                IF f = 1 THEN [NoSock EXCEPT !.conn = TRUE, !.peer = 2]
                ELSE IF f = 2 THEN [NoSock EXCEPT !.conn = TRUE, !.peer = 1]
                ELSE NoSock]
    /\ handle = [h \in Handles |-> IF h = 1 THEN from_socket2(1, "live") ELSE NoHandle]
    /\ buf = [b \in Bufs |-> [owner |-> "caller", len |-> 0, freed |-> 0]]
    /\ call = [c \in Calls |-> IdleCall]
    /\ last = IdleCall
    /\ prog = NoProg

CloneNext ==
    \/ \E h \in DOMAIN handle : TryClone(h)
    \/ \E h \in DOMAIN handle : DropHandle(h)
    \/ \E h \in DOMAIN handle : StartCall("close", h, 0, 0)
    \/ \E h \in DOMAIN handle, b \in DOMAIN buf : StartCall("send", h, b, 0)
    \/ \E c \in DOMAIN call : Poll(c)
    \/ \E c \in DOMAIN call : OSComplete(c)
    \/ \E c \in DOMAIN call : PollReady(c)

CloneSpec == CloneInit /\ [][CloneNext]_vars

\* A listener and a client of the same program on a loopback that does not
\* fail: accept on the listener next to connect_async from the client, then one
\* byte from the client to the accepted handle and one byte back.
ScnCalls == MaxCalls + 1
ScnHandles == MaxHandles + 1
ScnFds == MaxFd + 1
ScnBufs == MaxBufs + 2

ScnListener == 1
ScnClient == 2
ScnPayload == 1

ScnInit ==
    /\ backend \in Backends
    /\ faults = FALSE
    /\ closed = TRUE
    /\ fd = OpenFd(OpenFd([f \in 1..ScnFds |-> NoFd], ScnListener), ScnClient)
    /\ net = [f \in 1..ScnFds |-> IF f = ScnListener THEN [NoSock EXCEPT !.listening = TRUE] ELSE NoSock]
    /\ handle = [h \in 1..ScnHandles |->
                    IF h \in {ScnListener, ScnClient} THEN from_socket2(h, "live") ELSE NoHandle]
    /\ buf = [b \in 1..ScnBufs |->
                    [owner |-> "caller", len |-> IF b = ScnPayload THEN 1 ELSE 0, freed |-> 0]]
    /\ call = [c \in 1..ScnCalls |-> IdleCall]
    /\ last = IdleCall
    /\ prog = [NoProg EXCEPT !.run = TRUE]

Awaiting(k) == \E c \in DOMAIN call : call[c].kind = k
Connected == prog.acc = "ok" /\ prog.con = "ok" /\ ~prog.failed

\* The first byte goes from the client to the accepted handle, the second back.
FirstDone == ScnClient \in prog.sent /\ prog.peer \in prog.rcvd
ScnSender == IF FirstDone THEN prog.peer ELSE ScnClient
ScnReceiver == IF FirstDone THEN ScnClient ELSE prog.peer
ScnRecvBuf == IF FirstDone THEN ScnPayload + 2 ELSE ScnPayload + 1

ScnStartAccept ==
    /\ prog.acc = "todo" /\ ~prog.failed /\ ~Awaiting("accept")
    /\ StartCall("accept", ScnListener, 0, 0)

ScnStartConnect ==
    /\ prog.con = "todo" /\ ~prog.failed /\ ~Awaiting("connect")
    /\ StartCall("connect", ScnClient, 0, local_addr(ScnListener))

ScnStartSend ==
    /\ Connected /\ ScnSender \notin prog.sent /\ ~Awaiting("send")
    /\ StartCall("send", ScnSender, ScnPayload, 0)

ScnStartRecv ==
    /\ Connected /\ ScnReceiver \notin prog.rcvd /\ ~Awaiting("recv")
    /\ StartCall("recv", ScnReceiver, ScnRecvBuf, 0)

\* Every future of the scenario is awaited: none is dropped.
ScnNext ==
    \/ ScnStartAccept
    \/ ScnStartConnect
    \/ ScnStartSend
    \/ ScnStartRecv
    \/ \E c \in DOMAIN call : Poll(c)
    \/ \E c \in DOMAIN call : OSComplete(c)
    \/ \E c \in DOMAIN call : PollReady(c)

\* The runtime keeps polling woken tasks and the OS keeps finishing requests.
FairScenario == ScnInit /\ [][ScnNext]_vars /\ WF_vars(ScnNext)

\* ---------------------------------------------------------------- close
CloseCalls(f) == {c \in DOMAIN call : call[c].kind = "close" /\ handle[call[c].h].fd = f}

\* C1: once close(handle) was called, the descriptor does not stay open with
\* nothing left that will release it: while it is open, the future returned by
\* close is still held or the close request is in flight.
C1_CloseReleasesDescriptor ==
    \A f \in DOMAIN fd :
        (fd[f].closing /\ fd[f].st = "open")
            => \E c \in CloseCalls(f) : Live(c) \/ call[c].os = "inflight"

\* A descriptor of a closed handle goes from open to released in this step.
ReleasedNow(f) == fd[f].closing /\ fd[f].st = "open" /\ fd'[f].st = "released"

\* The close request on descriptor f finishes in this step.
CloseCompletes(f) ==
    \E c \in DOMAIN call :
        /\ call[c].kind = "close" /\ call[c].tfd = f
        /\ call[c].op = "Submitted" /\ call[c].os = "inflight"
        /\ call'[c].os # "inflight"

\* C2: a descriptor on which close was called is released at most once, and only
\* by the completion of the submitted close operation, never by the destruction
\* of the handle or of the future that holds it.
C2_ReleasedOnceByCloseCompletion ==
    [][\A f \in DOMAIN fd :
          /\ fd'[f].closing => fd'[f].rel <= 1
          /\ ReleasedNow(f) => CloseCompletes(f)
          /\ (fd[f].closing /\ fd[f].st = "released") => fd'[f] = fd[f]]_vars

C2_Witness ==
    /\ last.kind = "close" /\ last.pc = "done"
    /\ fd[last.tfd].st = "released" /\ fd[last.tfd].rel = 1
    /\ handle[last.h].st = "gone"

BufCallDone == last.kind \in BufKinds /\ last.pc = "done"

\* The caller holds buffer b again with its cursor at l.
HandedBack(b, l) == b # 0 /\ last.retbuf = b /\ buf[b].owner = "caller" /\ buf[b].len = l

\* C4 as stated: every recv and send hands back the buffer it was given, its
\* cursor advanced by the reported byte count on success, unchanged on failure.
C4_AdvancedByCountForRecvAndSend ==
    BufCallDone =>
        HandedBack(last.buf, IF last.out = "ok" THEN last.len0 + last.n ELSE last.len0)

\* C4 (amended): every recv and send hands back the buffer it was given; a
\* successful recv has advanced its cursor by the reported byte count, and a
\* failed recv and every send leave the cursor where it was.
C4_BufferRoundTrip ==
    BufCallDone =>
        HandedBack(last.buf, IF last.kind \in RecvKinds /\ last.out = "ok"
                             THEN last.len0 + last.n ELSE last.len0)

C4_Witness ==
    /\ BufCallDone /\ last.kind \in RecvKinds
    /\ last.out = "ok" /\ last.n > 0
    /\ buf[last.buf].len = last.len0 + last.n

\* C5: when the future of a recv or send is dropped, the buffer stays alive and
\* with the operation while the OS may still use it, is destroyed exactly once
\* when the OS is done (aborted or completed anyway), and neither an outcome nor
\* the buffer reaches the caller.
C5_DroppedBufferSafe ==
    /\ \A b \in DOMAIN buf : buf[b].freed <= 1 /\ (buf[b].owner = "caller" => buf[b].freed = 0)
    /\ \A c \in DOMAIN call :
          (call[c].pc = "dropped" /\ call[c].buf # 0 /\ call[c].os = "inflight")
              => /\ buf[call[c].buf].owner = "op" /\ buf[call[c].buf].freed = 0
                 /\ call[c].out = "none" /\ call[c].retbuf = 0
    /\ (last.pc = "dropped" /\ last.buf # 0)
          => /\ buf[last.buf].owner = "destroyed" /\ buf[last.buf].freed = 1
             /\ last.out = "none" /\ last.retbuf = 0

C5_Witness ==
    /\ last.pc = "dropped" /\ last.buf # 0
    /\ last.op = "Cancelled" /\ last.os = "done" /\ last.raw = "ok"
    /\ buf[last.buf].freed = 1

\* C6: while an operation is Submitted, its buffer is with the operation alone:
\* not with the caller, not with another call, not destroyed, not changed.
C6_SubmittedBufferExclusive ==
    \A c \in DOMAIN call :
        (call[c].op = "Submitted" /\ call[c].buf # 0)
            => /\ buf[call[c].buf].owner = "op"
               /\ buf[call[c].buf].freed = 0
               /\ buf[call[c].buf].len = call[c].len0
               /\ \A d \in DOMAIN call : d # c => call[d].buf # call[c].buf

C6_Witness ==
    \E c \in DOMAIN call :
        call[c].op = "Submitted" /\ call[c].kind \in BufKinds /\ call[c].os = "inflight"

\* C7: a recv or send on a handle whose try_get fails returns the failure and
\* the untouched buffer, and builds and submits no operation.
C7_TryGetFailureReturnsBuffer ==
    /\ (last.kind \in BufKinds /\ last.got = "err")
          => /\ last.pc = "done" /\ last.out = "err"
             /\ HandedBack(last.buf, last.len0) /\ buf[last.buf].freed = 0
             /\ last.op = "none" /\ last.os = "none"
    /\ \A c \in DOMAIN call :
          (call[c].kind \in BufKinds /\ call[c].got = "err")
              => call[c].op = "none" /\ call[c].os = "none"

C7_Witness ==
    /\ last.kind \in BufKinds /\ last.got = "err"
    /\ handle[last.h].att = Elsewhere
    /\ buf[last.buf].owner = "caller"

\* ---------------------------------------------------------------- accept, connect_async
Owned(f) == \E h \in DOMAIN handle : handle[h].st \in {"live", "local", "guarded"} /\ handle[h].fd = f

\* C8: an accept that fails at any step returns no handle, and the descriptor
\* the call allocated (the socket to accept into) or got from the kernel is
\* released exactly once.
C8_FailedAcceptReleasesDescriptor ==
    /\ \A f \in DOMAIN fd : fd[f].rel <= 1
    /\ (last.kind = "accept" /\ last.pc = "done" /\ last.out = "err")
          => /\ last.ret = 0
             /\ last.nfd # 0 => /\ fd[last.nfd].st = "released" /\ fd[last.nfd].rel = 1
                                /\ ~Owned(last.nfd)

C8_Witness ==
    /\ backend = "iocp"
    /\ last.kind = "accept" /\ last.pc = "done" /\ last.raw = "err" /\ last.out = "err"
    /\ last.nfd # 0 /\ fd[last.nfd].rel = 1

Resolved == last.pc = "done" /\ last.raw # "none"

\* C9: on the completion-port backend connect_async and accept succeed exactly
\* when the raw result, the context finalization and (for accept) the address
\* extraction succeed; the finalization runs exactly when the raw result is a
\* success and its failure is the call's failure.  On the other backends the
\* outcome of connect_async is the raw outcome.
C9_FinalizationDecidesOutcome ==
    /\ (Resolved /\ backend = "iocp" /\ last.kind \in {"connect", "accept"})
          => /\ last.out = "ok" <=> /\ last.raw = "ok" /\ last.fin = "ok"
                                    /\ last.kind = "accept" => last.addrx = "ok"
             /\ last.fin # "none" <=> last.raw = "ok"
             /\ last.fin = "err" => last.out = "err"
    /\ (Resolved /\ backend # "iocp" /\ last.kind = "connect")
          => last.out = last.raw /\ last.fin = "none"

C9_Witness ==
    /\ backend = "iocp" /\ Resolved /\ last.kind = "connect"
    /\ last.raw = "ok" /\ last.fin = "err" /\ last.out = "err"
\* ---------------------------------------------------------------- accept next to connect
ScnGoal ==
    /\ Connected
    /\ prog.peer # 0 /\ handle[prog.peer].st = "live"
    /\ prog.sent = {ScnClient, prog.peer}
    /\ prog.rcvd = {ScnClient, prog.peer}

\* C10: with accept on a listener and connect_async to the listener's address
\* issued side by side on a loopback that does not fail, no call of the
\* scenario ever resolves to an error and, whatever the order of submissions
\* and completions, eventually both have resolved successfully and one byte has
\* been sent and received in each direction between the client and the handle
\* accept returned.
C10_AcceptConnectExchange == [](~prog.failed) /\ <>ScnGoal

\* both calls resolved, the handle from accept attached at its first use, and
\* each side holds the byte the other one sent
C10_Witness ==
    /\ ScnGoal
    /\ handle[prog.peer].att = Here
    /\ buf[ScnPayload + 1].len = 1 /\ buf[ScnPayload + 2].len = 1
\* ---------------------------------------------------------------- datagrams
\* C11: a recv_from that succeeded on a bound datagram handle gives back the
\* buffer advanced by the reported count together with the local address of
\* the handle that sent the datagram, and a datagram only ever waits at the
\* socket whose address the sender's caller passed to send_to (so a send_to to
\* a returned address reaches the original sender).
C11_RecvFromNamesSender ==
    /\ (last.kind = "recv_from" /\ last.pc = "done" /\ last.out = "ok") =>
            /\ last.src # 0
            /\ last.retaddr = Obj(fd, handle[last.src].fd)
            /\ net[Obj(fd, last.tfd)].bound
            /\ buf[last.retbuf].len = last.len0 + last.n
    /\ \A o \in DOMAIN net : net[o].dg # NoDg => net[o].dg.want = o

\* a handle got its own datagram back: n > 0 bytes from its own local address
C11_Witness ==
    /\ last.kind = "recv_from" /\ last.pc = "done" /\ last.out = "ok"
    /\ last.src = last.h
    /\ last.n > 0
    /\ last.retaddr = local_addr(last.h)

\* ---------------------------------------------------------------- bind
\* C19: bind returns a handle exactly when the socket creation, the attachment
\* check and the OS bind all succeeded; the returned handle owns an open, bound
\* descriptor of the address's family; and when bind returns an error after the
\* descriptor was created, no handle owns the descriptor and it was released
\* exactly once.
C19_BindAllOrNothing ==
    last.kind = "bind" =>
        /\ (last.ret # 0) = (last.raw = "ok" /\ last.got = "ok" /\ last.fin = "ok")
        /\ (last.out = "ok") = (last.ret # 0)
        /\ last.ret # 0 =>
                /\ handle[last.ret].st = "live" /\ handle[last.ret].fd = last.nfd
                /\ fd[last.nfd].st = "open" /\ fd[last.nfd].rel = 0
                /\ net[Obj(fd, last.nfd)].dom = last.dom
                /\ net[Obj(fd, last.nfd)].bound
        /\ (last.ret = 0 /\ last.nfd # 0) =>
                /\ fd[last.nfd].st = "released" /\ fd[last.nfd].rel = 1
                /\ \A h \in DOMAIN handle : handle[h].fd # last.nfd

\* the OS bind failed on a socket that had been created and attached
C19_Witness ==
    /\ last.kind = "bind" /\ last.fin = "err" /\ last.out = "err"
    /\ last.nfd # 0 /\ fd[last.nfd].rel = 1
\* ---------------------------------------------------------------- attachment
WasSubmitted(c) == call[c].op \in {"Submitted", "Completed", "Cancelled"}

\* C13: every operation that was submitted to the runtime belongs to a call
\* that passed the attachment check (try_get) before the submission, so its
\* handle is attached to the runtime it was submitted to; this includes close.
C13_SubmittedAfterTryGet ==
    \A c \in DOMAIN call :
        WasSubmitted(c) => (call[c].got = "ok" /\ handle[call[c].h].att = Here)

\* ---------------------------------------------------------------- accept
\* C15: while an accept request is in flight, the descriptor of the socket
\* that was allocated for it before the submission is open.
C15_PreallocatedHeldWhileSubmitted ==
    \A c \in DOMAIN call :
        (call[c].kind = "accept" /\ call[c].os = "inflight" /\ call[c].nfd # 0)
            => fd[call[c].nfd].st = "open"

\* A future that has not resolved yet still holds the raw result of its request.
HeldByCall(f) == \E c \in DOMAIN call : call[c].nfd = f /\ call[c].pc = "pending"

\* C16: a descriptor that is open, and that no close was called for, is owned
\* by a handle or is the result of an accept whose future is about to wrap it:
\* no descriptor the OS produced for an accept stays open without an owner.
C16_AcceptedDescriptorOwned ==
    \A f \in DOMAIN fd :
        (fd[f].st = "open" /\ ~fd[f].closing) => (Owned(f) \/ HeldByCall(f))
\* ---------------------------------------------------------------- shutdown
\* C14: when shutdown has resolved after its request was made, with success or
\* with failure, the handle is still live and owns the descriptor the request
\* was made on, the descriptor is open and was never released, and at most the
\* write side of the socket is shut down (exactly it after a success); every
\* request made on a handle is made on the descriptor the handle owns.
C14_ShutdownKeepsDescriptor ==
    /\ (last.kind = "shutdown" /\ last.pc = "done" /\ last.raw # "none") =>
            /\ handle[last.h].st = "live"
            /\ handle[last.h].fd = last.tfd
            /\ fd[last.tfd].st = "open" /\ fd[last.tfd].rel = 0
            /\ last.out = "ok" => net[Obj(fd, last.tfd)].shut = "write"
    /\ \A o \in DOMAIN net : net[o].shut \in {"none", "write"}
    /\ \A c \in DOMAIN call : call[c].tfd # 0 => call[c].tfd = handle[call[c].h].fd

\* after a successful shutdown a recv on the same handle went to the same
\* descriptor and succeeded
C14_Witness ==
    /\ last.kind = "recv" /\ last.pc = "done" /\ last.out = "ok"
    /\ last.tfd = handle[last.h].fd
    /\ fd[last.tfd].st = "open"
    /\ net[Obj(fd, last.tfd)].shut = "write"
\* ---------------------------------------------------------------- operation lifecycle
\* The operation of call c moves only from not submitted to Submitted and from
\* Submitted to Completed or to Cancelled, until the call's slot is cleared.
OpMoves(c) ==
    \/ call'[c] = IdleCall
    \/ call'[c].op = call[c].op
    \/ call[c].op = "none" /\ call'[c].op = "Submitted"
    \/ call[c].op = "Submitted" /\ call'[c].op \in {"Completed", "Cancelled"}

\* The OS is asked once: a request that ended is never in flight again.
AskedOnce(c) ==
    \/ call'[c] = IdleCall
    \/ call'[c].os = call[c].os
    \/ call[c].os = "none" /\ call'[c].os = "inflight" /\ call[c].pc = "created"
    \/ call[c].os = "inflight" /\ call'[c].os \in {"done", "aborted"}

\* Buffer b changes hands only at these points: the call takes it, the first
\* poll moves it into the operation or returns it, the resolving poll of a
\* Completed operation returns it, and a dropped call destroys it.
BufMoves(b) ==
    LET o == buf[b].owner
        p == buf'[b].owner
        mine == {c \in DOMAIN call : call[c].buf = b}
    IN  \/ p = o
        \/ o = "caller" /\ p = "future" /\ \E c \in DOMAIN call : call'[c].buf = b /\ call'[c].pc = "created"
        \/ o = "future" /\ p = "op" /\ \E c \in mine : call[c].op = "none" /\ call'[c].op = "Submitted"
        \/ o = "future" /\ p = "caller" /\ last'.pc = "done" /\ last'.retbuf = b /\ last'.op = "none"
        \/ o = "op" /\ p = "caller" /\ last'.pc = "done" /\ last'.retbuf = b /\ last'.op = "Completed"
        \/ o \in {"future", "op"} /\ p = "destroyed" /\ buf'[b].freed = 1
              /\ \E c \in mine : call[c].pc = "dropped" \/ call'[c].pc = "dropped" \/ last'.pc = "dropped"

\* A buffer that is inside a future or an operation belongs to exactly one call.
BufHeld(b) ==
    buf'[b].owner \in {"future", "op"} =>
        Cardinality({c \in DOMAIN call : call'[c].buf = b}) = 1

\* C17: in every step, every operation follows Constructed -> Submitted ->
\* Completed or Cancelled and nothing else, the OS is asked at most once per
\* operation, and every buffer is handed back to the caller or destroyed exactly
\* once: at the poll that resolves a Completed operation, at the first poll
\* when nothing was submitted, or when the dropped call is destroyed.
C17_OperationLifecycle ==
    [][/\ \A c \in DOMAIN call : OpMoves(c) /\ AskedOnce(c)
       /\ \A b \in DOMAIN buf : BufMoves(b) /\ BufHeld(b) /\ buf'[b].freed <= 1]_vars

\* an operation was cancelled, the OS completed it anyway, and its buffer was
\* destroyed exactly once
C17_Witness ==
    /\ last.op = "Cancelled" /\ last.os = "done" /\ last.raw = "ok"
    /\ last.buf # 0
    /\ buf[last.buf].owner = "destroyed" /\ buf[last.buf].freed = 1
\* ---------------------------------------------------------------- try_clone
Holds(h) == handle[h].st \in {"live", "local", "guarded"}

\* C18: handles that exist at the same time own different descriptors; the
\* descriptor of a live handle is open whatever happened to the other handles
\* of the same OS object, so the object is kept alive; a request made on a live
\* handle of the connected socket is not refused by the OS; and try_clone gives
\* a new descriptor for the same OS object.
C18_ClonesOwnDistinctDescriptors ==
    /\ \A h \in DOMAIN handle, g \in DOMAIN handle :
            (h # g /\ Holds(h) /\ Holds(g)) => handle[h].fd # handle[g].fd
    /\ \A h \in DOMAIN handle :
            handle[h].st = "live" =>
                /\ fd[handle[h].fd].st = "open"
                /\ ObjOpen(fd, Obj(fd, handle[h].fd))
    /\ (last.kind = "send" /\ last.pc = "done" /\ last.raw # "none") => last.raw = "ok"
    /\ (last.kind = "try_clone" /\ last.out = "ok") =>
            /\ last.nfd # last.tfd
            /\ Obj(fd, last.nfd) = Obj(fd, last.tfd)

\* one handle of a cloned socket was released and a send on the other one
\* succeeded afterwards
C18_Witness ==
    /\ last.kind = "send" /\ last.pc = "done" /\ last.out = "ok"
    /\ handle[last.h].st = "live"
    /\ \E f \in DOMAIN fd :
            /\ f # last.tfd
            /\ Obj(fd, f) = Obj(fd, last.tfd)
            /\ fd[f].st = "released"
\* ---------------------------------------------------------------- clones side by side
\* A connected socket with a byte waiting in it is cloned; one task sends on one
\* of the two handles while another receives on the other.  Nothing fails.
TwinInit ==
    /\ backend \in Backends
    /\ faults = FALSE
    /\ closed = TRUE
    /\ fd = OpenFd(OpenFd([f \in 1..ScnFds |-> NoFd], 1), 2)
    /\ net = [f \in 1..ScnFds |->
                IF f = 1 THEN [NoSock EXCEPT !.conn = TRUE, !.peer = 2]
                ELSE IF f = 2 THEN [NoSock EXCEPT !.conn = TRUE, !.peer = 1, !.tx = 1]
                ELSE NoSock]
    /\ handle = [h \in 1..ScnHandles |-> IF h = 1 THEN from_socket2(1, "live") ELSE NoHandle]
    /\ buf = [b \in 1..ScnBufs |->
                    [owner |-> "caller", len |-> IF b = ScnPayload THEN 1 ELSE 0, freed |-> 0]]
    /\ call = [c \in 1..ScnCalls |-> IdleCall]
    /\ last = IdleCall
    /\ prog = [NoProg EXCEPT !.run = TRUE]

Twins == {h \in DOMAIN handle : handle[h].st = "live"}
UsedBy(k) == {call[c].h : c \in {d \in DOMAIN call : call[d].kind = k}}
Senders == prog.sent \cup UsedBy("send")
Receivers == prog.rcvd \cup UsedBy("recv")

TwinClone ==
    /\ Cardinality(Twins) = 1
    /\ TryClone(1)

TwinStartSend ==
    /\ Cardinality(Twins) = 2 /\ Senders = {} /\ ~prog.failed
    /\ \E h \in Twins \ Receivers : StartCall("send", h, ScnPayload, 0)

TwinStartRecv ==
    /\ Cardinality(Twins) = 2 /\ Receivers = {} /\ ~prog.failed
    /\ \E h \in Twins \ Senders : StartCall("recv", h, ScnPayload + 1, 0)

TwinNext ==
    \/ TwinClone
    \/ TwinStartSend
    \/ TwinStartRecv
    \/ \E c \in DOMAIN call : Poll(c)
    \/ \E c \in DOMAIN call : OSComplete(c)
    \/ \E c \in DOMAIN call : PollReady(c)

\* The runtime keeps polling woken tasks and the OS keeps finishing requests.
FairTwins == TwinInit /\ [][TwinNext]_vars /\ WF_vars(TwinNext)

TwinGoal ==
    /\ ~prog.failed
    /\ Cardinality(prog.sent) = 1 /\ Cardinality(prog.rcvd) = 1
    /\ prog.sent # prog.rcvd
    /\ buf[ScnPayload].owner = "caller" /\ buf[ScnPayload].len = 1
    /\ buf[ScnPayload + 1].owner = "caller" /\ buf[ScnPayload + 1].len = 1

\* A step of one call leaves the other call, its buffer and its handle alone.
OneCallPerStep ==
    \A c \in DOMAIN call, d \in DOMAIN call :
        (c # d /\ call'[c] # call[c]) =>
            /\ call'[d] = call[d]
            /\ call[d].buf # 0 => buf'[call[d].buf] = buf[call[d].buf]
            /\ call[d].h # 0 /\ call[d].h # call[c].h /\ call[d].h # call'[c].h
                    => handle'[call[d].h] = handle[call[d].h]

\* C12: with a send on one clone and a recv on the other issued side by side,
\* no call ever fails, every step of one call leaves the other call's record,
\* buffer and handle untouched, the two requests go to different descriptors,
\* and whatever the order of submissions and completions both calls eventually
\* resolve successfully with each caller holding its own buffer again.
C12_ClonesSendRecvIndependently ==
    /\ [](~prog.failed)
    /\ [][OneCallPerStep]_vars
    /\ [](\A c \in DOMAIN call, d \in DOMAIN call :
              (c # d /\ call[c].tfd # 0 /\ call[d].tfd # 0) => call[c].tfd # call[d].tfd)
    /\ <>TwinGoal

\* both calls resolved successfully, on two different handles
C12_Witness ==
    /\ TwinGoal
    /\ \A h \in prog.sent \cup prog.rcvd : handle[h].att = Here
====
